---- MODULE Spec2Model ----
(***************************************************************************)
(* Model of app.py: the Flask front end that resolves a download request   *)
(* into a yt-dlp configuration, runs the engine, reconciles the predicted  *)
(* file name against the shared downloads directory, and answers; plus the *)
(* metadata/preview endpoint.  The external engine (yt_dlp) and the        *)
(* filesystem are the environment: the engine either raises or writes one  *)
(* file and returns metadata, chosen nondeterministically.                 *)
(***************************************************************************)
EXTENDS Integers, Sequences, FiniteSets, TLC

VARIABLES
    dir,        \* DOWNLOAD_FOLDER: file name -> creation time (0 = no such file)
    ffmpeg,     \* whether ffmpeg and ffprobe are on PATH
    meta,       \* what the remote site reports for a URL (engine metadata)
    pc,         \* position of each request handler
    body,       \* the JSON body of each request
    opts,       \* ydl_opts handed to the engine by each download request
    info,       \* the info dict the engine returned to each download request
    fname,      \* expected / actual file name of each download request
    resp,       \* the response of each request
    served,     \* outcome of the client's GET of the returned file
    invoked,    \* requests for which the external engine was called
    clients,    \* the request bodies clients send
    site        \* the renditions the remote site can deliver to the engine

env == <<ffmpeg, meta, clients, site>>
vars == <<dir, ffmpeg, meta, pc, body, opts, info, fname, resp, served, invoked,
          clients, site>>

----------------------------------------------------------------------------
(* Bounds and value universes                                              *)

MaxOldTime == 2
MaxRequested == 2
MaxFormats == 2

Requests == {"r1", "r2"}

NoneV == "None"                  \* Python None / missing JSON key

Truthy(s) == s # NoneV /\ s # ""

Urls == {"ua", "ub"}
UrlInputs == {NoneV, ""} \cup Urls
TypeInputs == {"video", "audio", NoneV}
FormatInputs == {"1080p", "720p", "480p", "320kbps", "128kbps", "4k", NoneV}

DownloadBodies ==
    {[endpoint |-> "download", url |-> u, format |-> f, type |-> t] :
        u \in UrlInputs, f \in FormatInputs, t \in TypeInputs}
InfoBodies == {[endpoint |-> "info", url |-> u] : u \in UrlInputs}

\* the engine's %(title)s substitution for a URL
Title(url) == IF url = "ua" THEN "a" ELSE "b"

AudioExts == {"mp3", "m4a", "ogg"}
VideoExts == {"mp4", "webm", "mkv"}

EngineExts == {"mp3", "mp4", "mkv"}
Acodecs == {"opus", "vorbis", "aac", NoneV}

Name(stem, ext) == [stem |-> stem, ext |-> ext]
NoName == Name("", "")

\* what the engine does with a download: the extension it writes, the one it
\* reports (and prepare_filename predicts), and the audio codec it reports
Renditions ==
    {[wext |-> w, ext |-> e, acodec |-> a] :
        w \in EngineExts, e \in EngineExts, a \in Acodecs}

OldNames == {Name("old", "ogg"), Name("old", "m4a"), Name("old", "webm"), Name("a", "mkv")}
AllNames == OldNames \cup {Name(Title(u), e) : u \in Urls, e \in EngineExts}

----------------------------------------------------------------------------
(* Capability probe and format resolver (download_with_yt_dlp, part 1)     *)

\* _has_ffmpeg(): both executables found on PATH
HasFfmpeg == ffmpeg

\* one stream selector of a yt-dlp format expression: sel[height<=maxh][filters]
\* (maxh = 0: the selector carries no height filter)
Sel(s, h, fs) == [sel |-> s, maxh |-> h, filters |-> fs]

\* a plausible slip: the last alternative falls back to an unconstrained "best"
TierFormatNoCap(h, use_ffmpeg) ==
    IF use_ffmpeg
    THEN << <<Sel("bestvideo", h, <<"ext=mp4", "vcodec^=avc1">>), Sel("bestaudio", 0, <<>>)>>,
            <<Sel("best", h, <<"ext=mp4">>)>>,
            <<Sel("best", 0, <<>>)>> >>
    ELSE << <<Sel("best", h, <<"ext=mp4", "acodec!=none">>)>>,
            <<Sel("best", 0, <<"acodec!=none">>)>> >>

\* the format string of a resolution tier: a sequence of "/" alternatives,
\* each a sequence of "+"-merged selectors
TierFormat(h, use_ffmpeg) ==
    IF use_ffmpeg
    THEN << <<Sel("bestvideo", h, <<"ext=mp4", "vcodec^=avc1">>), Sel("bestaudio", 0, <<>>)>>,
            <<Sel("best", h, <<"ext=mp4">>)>>,
            <<Sel("best", h, <<>>)>> >>
    ELSE << <<Sel("best", h, <<"ext=mp4", "acodec!=none">>)>>,
            <<Sel("best", h, <<"acodec!=none">>)>> >>

BestAudioFormat ==
    << <<Sel("bestaudio", 0, <<"ext=mp3">>)>>, <<Sel("bestaudio", 0, <<>>)>>,
       <<Sel("best", 0, <<>>)>> >>

WorstAudioFormat ==
    << <<Sel("worstaudio", 0, <<"ext=mp3">>)>>, <<Sel("worstaudio", 0, <<>>)>>,
       <<Sel("best", 0, <<>>)>> >>

FormatStr(media_type, format_type, use_ffmpeg) ==
    IF media_type = "audio"
    THEN IF format_type = "320kbps" THEN BestAudioFormat
         ELSE IF format_type = "128kbps" THEN WorstAudioFormat
         ELSE BestAudioFormat
    ELSE IF format_type = "1080p" THEN TierFormat(1080, use_ffmpeg)
         ELSE IF format_type = "720p" THEN TierFormat(720, use_ffmpeg)
         ELSE IF format_type = "480p" THEN TierFormat(480, use_ffmpeg)
         ELSE IF use_ffmpeg
              THEN << <<Sel("bestvideo", 0, <<>>), Sel("bestaudio", 0, <<>>)>>,
                      <<Sel("best", 0, <<>>)>> >>
              ELSE << <<Sel("best", 0, <<"acodec!=none">>)>>, <<Sel("best", 0, <<>>)>> >>

\* ydl_opts["postprocessor_args"] (<<>> = key not set)
PostArgs(media_type, format_type, use_ffmpeg) ==
    IF use_ffmpeg /\ media_type = "audio"
    THEN <<"-c:a", "libmp3lame", "-b:a", IF format_type = "320kbps" THEN "320k" ELSE "128k">>
    ELSE <<>>

\* a plausible slip: the merged container left to the engine for video
MergeFormatAudioOnly(media_type, use_ffmpeg) ==
    IF use_ffmpeg /\ media_type = "audio" THEN "mp3" ELSE NoneV

\* ydl_opts["merge_output_format"] (NoneV = key not set)
MergeFormat(media_type, use_ffmpeg) ==
    IF use_ffmpeg
    THEN IF media_type = "audio" THEN "mp3" ELSE "mkv"
    ELSE NoneV

\* the configuration handed to yt_dlp.YoutubeDL
YdlOpts(media_type, format_type, use_ffmpeg) ==
    [format |-> FormatStr(media_type, format_type, use_ffmpeg),
     outtmpl |-> "%(title)s.%(ext)s",
     noplaylist |-> TRUE,
     prefer_ffmpeg |-> IF use_ffmpeg THEN "True" ELSE NoneV,
     merge_output_format |-> MergeFormat(media_type, use_ffmpeg),
     postprocessor_args |-> PostArgs(media_type, format_type, use_ffmpeg)]

NoOpts == [format |-> <<>>]
NoInfo == [title |-> NoneV]
NoFname == [expected |-> NoName, actual |-> NoName]
NoBody == [endpoint |-> NoneV]
NoResp == [status |-> 0]

----------------------------------------------------------------------------
(* Result reconciliation and response (download_with_yt_dlp, part 2)       *)

Exists(d, n) == n \in DOMAIN d /\ d[n] > 0

\* the endswith(...) extension tuple of the media kind
KindExts(media_type) == IF media_type = "audio" THEN AudioExts ELSE VideoExts

\* a plausible slip: the same extension tuple used for both kinds
CandidatesAnyKind(d, media_type) ==
    {n \in DOMAIN d : d[n] > 0 /\ n.ext \in AudioExts \cup VideoExts}

\* [f for f in os.listdir(DOWNLOAD_FOLDER) if f.endswith(...)]
Candidates(d, media_type) ==
    {n \in DOMAIN d : d[n] > 0 /\ n.ext \in KindExts(media_type)}

\* a plausible slip: sort without reverse=True
Oldest(d, cands) == {n \in cands : \A m \in cands : d[n] <= d[m]}

\* files.sort(key=getctime, reverse=True); files[0] - the sort is stable and
\* listdir order is arbitrary, so any file of maximal ctime can come first
Newest(d, cands) == {n \in cands : \A m \in cands : d[m] <= d[n]}

MaxTime(d) == CHOOSE t \in {d[n] : n \in DOMAIN d} : \A n \in DOMAIN d : d[n] <= t

\* urllib.parse.quote / unquote: the encoded form is a value of its own
Quote(n) == [quoted |-> n]
Unquote(q) == q.quoted

W_CODEC == "FFmpeg not detected. Downloaded a single-file format; audio codec may be Opus/Vorbis."
W_PROGRESSIVE == "Downloaded using progressive format. Audio codec may not be MP3."

\* a plausible slip: the note says "mp3" when the audio was transcoded
AudioNoteMp3(media_type, use_ffmpeg) ==
    IF use_ffmpeg
    THEN IF media_type = "audio" THEN "mp3" ELSE "merged mkv (bestvideo+bestaudio)"
    ELSE "progressive (no merge)"

\* result["audio_note"]
AudioNote(media_type, use_ffmpeg) ==
    IF use_ffmpeg THEN "merged mkv (bestvideo+bestaudio)" ELSE "progressive (no merge)"

\* a plausible slip: the codec test misses vorbis
CodecWarningOpusOnly(inf, use_ffmpeg) ==
    ~use_ffmpeg /\ (IF inf.acodec = NoneV THEN "" ELSE inf.acodec) \in {"opus"}

\* whether download_with_yt_dlp sets result["warning"]
CodecWarning(inf, use_ffmpeg) ==
    ~use_ffmpeg /\ (IF inf.acodec = NoneV THEN "" ELSE inf.acodec) \in {"opus", "vorbis"}

\* the result dict of download_with_yt_dlp for the reconciled name
DownloadResult(inf, actual, media_type, use_ffmpeg) ==
    LET base == [title |-> inf.title,
                 filename |-> actual,
                 download_url |-> [path |-> Quote(actual), download |-> FALSE],
                 ext |-> inf.ext,
                 audio_note |-> AudioNote(media_type, use_ffmpeg)]
    IN  IF CodecWarning(inf, use_ffmpeg) THEN [warning |-> W_CODEC] @@ base ELSE base

\* the JSON body download_video answers with on success
DownloadResponse(result, media_type) ==
    LET r1 == [status |-> 200,
               download_url |-> [path |-> Quote(result.filename), download |-> TRUE]]
              @@ result
    IN  IF r1.audio_note # "mp3" /\ media_type = "audio"
        THEN [warning |-> W_PROGRESSIVE] @@ r1
        ELSE r1

\* a plausible slip: the merged container's name is guessed instead of scanned for
ScanResultGuess(d, media_type, expected) ==
    {Name(expected.stem, IF media_type = "audio" THEN "mp3" ELSE "mkv")}

\* the names the fallback branch can leave in actual_filename
ScanResult(d, media_type, expected) ==
    IF Candidates(d, media_type) # {}
    THEN Newest(d, Candidates(d, media_type))
    ELSE {expected}

----------------------------------------------------------------------------
(* Request handlers                                                        *)

\* a plausible slip: only a missing url is refused, an empty one goes through
UrlMissingNoneOnly(url) == url = NoneV

\* "if not url": the url is missing or empty
UrlMissing(url) == ~Truthy(url)

Finish(r, response) ==
    /\ resp' = [resp EXCEPT ![r] = response]
    /\ pc' = [pc EXCEPT ![r] = "done"]
    /\ opts' = [opts EXCEPT ![r] = NoOpts]
    /\ info' = [info EXCEPT ![r] = NoInfo]
    /\ fname' = [fname EXCEPT ![r] = NoFname]

\* POST /api/download with a missing or empty url: 400
DownloadReject(r) ==
    /\ pc[r] = "idle"
    /\ \E b \in clients :
          /\ b.endpoint = "download"
          /\ UrlMissing(b.url)
          /\ body' = [body EXCEPT ![r] = b]
    /\ Finish(r, [status |-> 400, error |-> "URL is required."])
    /\ UNCHANGED <<dir, env, served, invoked>>

\* POST /api/download: the format is resolved and the engine is called
DownloadStart(r) ==
    /\ pc[r] = "idle"
    /\ \E b \in clients :
          /\ b.endpoint = "download"
          /\ ~UrlMissing(b.url)
          /\ body' = [body EXCEPT ![r] = b]
          /\ opts' = [opts EXCEPT ![r] = YdlOpts(b.type, b.format, HasFfmpeg)]
    /\ invoked' = invoked \cup {r}
    /\ pc' = [pc EXCEPT ![r] = "engine"]
    /\ UNCHANGED <<dir, env, info, fname, resp, served>>

\* ydl.extract_info(url, download=True) returns: one file was written (or was
\* already there and is left alone), and prepare_filename predicts its name
EngineDownload(r) ==
    /\ pc[r] = "engine"
    /\ body[r].endpoint = "download"
    /\ \E rnd \in site, fresh \in BOOLEAN :
          LET title == Title(body[r].url)
              written == Name(title, rnd.wext)
          IN  /\ fresh \/ Exists(dir, written)
              /\ dir' = IF fresh THEN [dir EXCEPT ![written] = MaxTime(dir) + 1] ELSE dir
              /\ info' = [info EXCEPT ![r] =
                             [title |-> title, ext |-> rnd.ext, acodec |-> rnd.acodec]]
              /\ fname' = [fname EXCEPT ![r] =
                              [expected |-> Name(title, rnd.ext),
                               actual |-> Name(title, rnd.ext)]]
    /\ opts' = [opts EXCEPT ![r] = NoOpts]
    \* format_type is not read again after the options are built
    /\ body' = [body EXCEPT ![r] =
                   [endpoint |-> "download", url |-> body[r].url, type |-> body[r].type]]
    /\ pc' = [pc EXCEPT ![r] = "check"]
    /\ UNCHANGED <<env, resp, served, invoked>>

\* the engine raises: caught at the request boundary, 500
EngineDownloadRaise(r) ==
    /\ pc[r] = "engine"
    /\ body[r].endpoint = "download"
    /\ Finish(r, [status |-> 500, error |-> "Download failed"])
    /\ UNCHANGED <<dir, env, body, served, invoked>>

\* os.path.exists(expected_path) is true: the predicted name is answered
CheckFound(r) ==
    /\ pc[r] = "check"
    /\ Exists(dir, fname[r].expected)
    /\ Finish(r, DownloadResponse(
                    DownloadResult(info[r], fname[r].actual, body[r].type, HasFfmpeg),
                    body[r].type))
    /\ UNCHANGED <<dir, env, body, served, invoked>>

\* os.path.exists(expected_path) is false: on to the directory scan
CheckMissing(r) ==
    /\ pc[r] = "check"
    /\ ~Exists(dir, fname[r].expected)
    /\ pc' = [pc EXCEPT ![r] = "scan"]
    /\ UNCHANGED <<dir, env, body, opts, info, fname, resp, served, invoked>>

\* listdir + sort by ctime: the newest file of the kind, else the predicted name
ScanFallback(r) ==
    /\ pc[r] = "scan"
    /\ \E actual \in ScanResult(dir, body[r].type, fname[r].expected) :
          Finish(r, DownloadResponse(
                       DownloadResult(info[r], actual, body[r].type, HasFfmpeg),
                       body[r].type))
    /\ UNCHANGED <<dir, env, body, served, invoked>>

\* GET /static/downloads/<filename> for the URL a download answered with
GetFile(r) ==
    /\ pc[r] = "done"
    /\ body[r].endpoint = "download"
    /\ resp[r].status = 200
    /\ served[r] = "none"
    /\ served' = [served EXCEPT ![r] =
                     IF Exists(dir, Unquote(resp[r].download_url.path)) THEN "200" ELSE "404"]
    /\ UNCHANGED <<dir, env, pc, body, opts, info, fname, resp, invoked>>

----------------------------------------------------------------------------
(* Preview resolver (extract_info_no_download)                             *)

\* dict.get: a missing key reads as None
Get(f, k) == IF k \in DOMAIN f THEN f[k] ELSE NoneV

\* an entry that is None or an empty dict is falsy
NoneEntry == <<>>
IsEntry(f) == DOMAIN f # {}

\* (x or "").lower() on the extensions met here
Lower(s) == IF s = NoneV THEN ""
            ELSE IF s = "MP4" THEN "mp4"
            ELSE IF s = "WEBM" THEN "webm"
            ELSE s

\* info.get(key) or []
ListOf(inf, key) == IF key \in DOMAIN inf THEN inf[key] ELSE <<>>

HasVideo(f) == Get(f, "vcodec") # "none"
HasAudio(f) == Get(f, "acodec") # "none"

Combined(f) == IsEntry(f) /\ Truthy(Get(f, "url")) /\ HasVideo(f) /\ HasAudio(f)
AnyVideo(f) == IsEntry(f) /\ Truthy(Get(f, "url")) /\ HasVideo(f)
CombinedProgressive(f) == Combined(f) /\ Lower(Get(f, "ext")) \in {"mp4", "webm"}

\* the for ... break loops: the url of the first entry of a list whose index
\* is among those that pass the loop's test
FirstUrl(fs, passing) ==
    IF passing # {}
    THEN fs[CHOOSE j \in passing : \A k \in passing : j <= k].url
    ELSE NoneV

\* the combined a/v loop over the requested formats
FirstCombined(fs) == FirstUrl(fs, {i \in DOMAIN fs : Combined(fs[i])})

\* the any-video loops over the requested formats and over the full format list
FirstVideo(fs) == FirstUrl(fs, {i \in DOMAIN fs : AnyVideo(fs[i])})

\* the progressive mp4/webm loop over the full format list
FirstProgressive(fs) == FirstUrl(fs, {i \in DOMAIN fs : CombinedProgressive(fs[i])})

\* a plausible slip: the progressive scan runs before the requested formats
PreviewUrlFormatsFirst(inf) ==
    LET top == Get(inf, "url")
        requested == ListOf(inf, "requested_formats")
        all_formats == ListOf(inf, "formats")
        t4 == FirstProgressive(all_formats)
        t2 == FirstCombined(requested)
        t3 == FirstVideo(requested)
    IN  IF Truthy(top) THEN top
        ELSE IF Truthy(t4) THEN t4
        ELSE IF Truthy(t2) THEN t2
        ELSE IF Truthy(t3) THEN t3
        ELSE FirstVideo(all_formats)

\* a loop that finds nothing leaves preview_url as it was
Found(prev, url) == IF Truthy(url) THEN url ELSE prev

\* preview_url
PreviewUrl(inf) ==
    LET top == Get(inf, "url")
        requested == ListOf(inf, "requested_formats")
        all_formats == ListOf(inf, "formats")
        p2 == IF ~Truthy(top) /\ requested # <<>>
              THEN Found(top, FirstCombined(requested))
              ELSE top
        p3 == IF ~Truthy(top) /\ requested # <<>> /\ ~Truthy(p2)
              THEN Found(p2, FirstVideo(requested))
              ELSE p2
        p4 == IF ~Truthy(p3)
              THEN Found(p3, FirstProgressive(all_formats))
              ELSE p3
    IN  IF ~Truthy(p3) /\ ~Truthy(p4)
        THEN Found(p4, FirstVideo(all_formats))
        ELSE p4

\* h = int(f.get("height") or 0)
Height(f) == IF "height" \in DOMAIN f THEN f.height ELSE 0

\* the entries the height scan counts
Counted(all_formats) ==
    {i \in DOMAIN all_formats :
        /\ IsEntry(all_formats[i])
        /\ Get(all_formats[i], "vcodec") # "none"
        /\ Height(all_formats[i]) > 0}

\* max_height (0 when no entry counts)
MaxHeight(all_formats) ==
    IF Counted(all_formats) = {} THEN 0
    ELSE LET i == CHOOSE j \in Counted(all_formats) :
                     \A k \in Counted(all_formats) :
                         Height(all_formats[k]) <= Height(all_formats[j])
         IN  Height(all_formats[i])

\* height_to_exts[max_height]
ExtsAt(all_formats, h) ==
    {Lower(Get(all_formats[i], "ext")) : i \in {j \in Counted(all_formats) :
                                                  Height(all_formats[j]) = h}}

\* best_ext: "mp4" when present at the best height, else whichever the set yields
BestExts(all_formats) ==
    IF MaxHeight(all_formats) > 0
    THEN IF "mp4" \in ExtsAt(all_formats, MaxHeight(all_formats))
         THEN {"mp4"}
         ELSE ExtsAt(all_formats, MaxHeight(all_formats))
    ELSE {NoneV}

\* a plausible slip: the 2K and FHD thresholds compared with > instead of >=
QualityLabelStrict(height) ==
    IF height = 0 THEN NoneV
    ELSE IF height >= 4320 THEN "8K"
    ELSE IF height >= 2160 THEN "4K"
    ELSE IF height > 1440 THEN "2K"
    ELSE IF height > 1080 THEN "FHD"
    ELSE IF height >= 720 THEN "HD"
    ELSE IF height >= 480 THEN "SD"
    ELSE ToString(height) \o "p"

\* _quality_label (height 0 stands for a falsy height: None or 0)
QualityLabel(height) ==
    IF height = 0 THEN NoneV
    ELSE IF height >= 4320 THEN "8K"
    ELSE IF height >= 2160 THEN "4K"
    ELSE IF height >= 1440 THEN "2K"
    ELSE IF height >= 1080 THEN "FHD"
    ELSE IF height >= 720 THEN "HD"
    ELSE IF height >= 480 THEN "SD"
    ELSE ToString(height) \o "p"

\* the dicts extract_info_no_download can return for a metadata result
\* (best_height is left out of the record when it is None)
ExtractInfoNoDownload(inf) ==
    LET all_formats == ListOf(inf, "formats")
        h == MaxHeight(all_formats)
    IN  {  (IF h > 0 THEN [best_height |-> h] ELSE <<>>)
           @@ [title |-> Get(inf, "title"),
               preview_url |-> PreviewUrl(inf),
               best_ext |-> e,
               best_quality_label |-> QualityLabel(h)]
           : e \in BestExts(all_formats) }

\* POST /api/info with a missing or empty url: 400
InfoReject(r) ==
    /\ pc[r] = "idle"
    /\ \E b \in clients :
          /\ b.endpoint = "info"
          /\ UrlMissing(b.url)
          /\ body' = [body EXCEPT ![r] = b]
    /\ Finish(r, [status |-> 400, error |-> "URL is required."])
    /\ UNCHANGED <<dir, env, served, invoked>>

\* POST /api/info: the engine is asked for metadata
InfoStart(r) ==
    /\ pc[r] = "idle"
    /\ \E b \in clients :
          /\ b.endpoint = "info"
          /\ ~UrlMissing(b.url)
          /\ body' = [body EXCEPT ![r] = b]
    /\ invoked' = invoked \cup {r}
    /\ pc' = [pc EXCEPT ![r] = "engine"]
    /\ UNCHANGED <<dir, env, opts, info, fname, resp, served>>

\* ydl.extract_info(url, download=False) returns: the preview is resolved
InfoExtract(r) ==
    /\ pc[r] = "engine"
    /\ body[r].endpoint = "info"
    /\ \E result \in ExtractInfoNoDownload(meta) :
          Finish(r, [status |-> 200] @@ result)
    /\ UNCHANGED <<dir, env, body, served, invoked>>

\* the engine raises: 500
InfoRaise(r) ==
    /\ pc[r] = "engine"
    /\ body[r].endpoint = "info"
    /\ Finish(r, [status |-> 500, error |-> "Info fetch failed"])
    /\ UNCHANGED <<dir, env, body, served, invoked>>

----------------------------------------------------------------------------
(* Inputs of the metadata endpoint                                         *)

SeqsUpTo(S, n) == UNION {[1..k -> S] : k \in 0..n}

\* the i-th entry of a list carries a URL of its own, when it carries one
Tagged(fs, prefix) ==
    [i \in DOMAIN fs |->
        IF IsEntry(fs[i]) /\ Truthy(Get(fs[i], "url"))
        THEN [fs[i] EXCEPT !.url = prefix \o ToString(i)]
        ELSE fs[i]]

MetaOf(top, requested, formats) ==
    [title |-> "t", url |-> top,
     requested_formats |-> Tagged(requested, "rf"),
     formats |-> Tagged(formats, "f")]

RequestedEntries ==
    {[url |-> u, vcodec |-> v, acodec |-> a] :
        u \in {NoneV, "u"}, v \in {"none", "avc1"}, a \in {"none", "mp4a"}}
    \cup {NoneEntry}

FormatEntries ==
    {[url |-> u, vcodec |-> v, acodec |-> a, ext |-> e, height |-> 720] :
        u \in {NoneV, "u"}, v \in {"none", "avc1"}, a \in {"none", "mp4a"},
        e \in {"mp4", "webm", "flv"}}
    \cup {NoneEntry}

Heights == {0, 1, 479, 480, 719, 720, 1079, 1080, 1439, 1440, 2159, 2160, 4319, 4320, 4321}

HeightEntries ==
    {[url |-> NoneV, vcodec |-> "avc1", acodec |-> "none", ext |-> "mp4", height |-> h] :
        h \in Heights}
    \cup {[url |-> NoneV, vcodec |-> "avc1", acodec |-> "none", ext |-> "webm"],
          [url |-> "u", vcodec |-> "none", acodec |-> "mp4a", ext |-> "m4a", height |-> 4320]}

\* metadata that exercises the requested-formats tiers
RequestedMetas ==
    {MetaOf(top, rf, fs) :
        top \in {NoneV, "", "top"},
        rf \in SeqsUpTo(RequestedEntries, MaxRequested),
        fs \in {<<>>,
                <<[url |-> "u", vcodec |-> "avc1", acodec |-> "mp4a", ext |-> "mp4",
                   height |-> 720]>>,
                <<[url |-> "u", vcodec |-> "vp9", acodec |-> "none", ext |-> "webm",
                   height |-> 1080]>>}}

\* metadata that exercises the format-list tiers
FormatMetas ==
    {MetaOf(NoneV, rf, fs) :
        rf \in {<<>>, <<[url |-> "u", vcodec |-> "none", acodec |-> "mp4a"]>>},
        fs \in SeqsUpTo(FormatEntries, MaxFormats)}

\* metadata that exercises the height scan and the quality label
HeightMetas ==
    {MetaOf("top", <<>>, fs) : fs \in SeqsUpTo(HeightEntries, MaxFormats)}

InfoInputs == RequestedMetas \cup FormatMetas \cup HeightMetas

\* the metadata the remote site reports while downloads are running
ServerMetas ==
    {MetaOf(NoneV, <<>>,
            <<[url |-> "u", vcodec |-> "none", acodec |-> "opus", ext |-> "webm"],
              [url |-> "u", vcodec |-> "vp9", acodec |-> "opus", ext |-> "webm",
               height |-> 1080]>>),
     MetaOf("top", <<>>, <<>>)}

----------------------------------------------------------------------------
(* Specifications                                                          *)

InitDirs ==
    {d \in [AllNames -> 0..MaxOldTime] : \A n \in AllNames \ OldNames : d[n] = 0}

InitHandlers ==
    /\ pc = [r \in Requests |-> "idle"]
    /\ body = [r \in Requests |-> NoBody]
    /\ opts = [r \in Requests |-> NoOpts]
    /\ info = [r \in Requests |-> NoInfo]
    /\ fname = [r \in Requests |-> NoFname]
    /\ resp = [r \in Requests |-> NoResp]
    /\ served = [r \in Requests |-> "none"]
    /\ invoked = {}

Download(r) ==
    \/ DownloadReject(r)
    \/ DownloadStart(r)
    \/ EngineDownload(r)
    \/ EngineDownloadRaise(r)
    \/ CheckFound(r)
    \/ CheckMissing(r)
    \/ ScanFallback(r)

\* one request of either endpoint, any body, any rendition, on a directory
\* that earlier downloads have filled
Init ==
    /\ dir \in InitDirs
    /\ ffmpeg \in BOOLEAN
    /\ meta \in ServerMetas
    /\ clients = {b \in DownloadBodies \cup InfoBodies : b.url # "ub"}
    /\ site = Renditions
    /\ InitHandlers

Next ==
    \/ DownloadReject("r1")
    \/ DownloadStart("r1")
    \/ EngineDownload("r1")
    \/ EngineDownloadRaise("r1")
    \/ CheckFound("r1")
    \/ CheckMissing("r1")
    \/ ScanFallback("r1")
    \/ GetFile("r1")
    \/ InfoReject("r1")
    \/ InfoStart("r1")
    \/ InfoExtract("r1")
    \/ InfoRaise("r1")

Spec == Init /\ [][Next]_vars

\* two download requests running at once against the shared directory
RaceBodies ==
    {[endpoint |-> "download", url |-> u, format |-> NoneV, type |-> t] :
        u \in Urls, t \in {"video", "audio"}}
    \cup {[endpoint |-> "download", url |-> "", format |-> NoneV, type |-> "video"]}

RaceRenditions == {rnd \in Renditions : rnd.acodec = "aac"}

InitRace ==
    /\ dir \in {d \in InitDirs : \A n \in AllNames : d[n] = 0}
    /\ ffmpeg = TRUE
    /\ meta \in ServerMetas
    /\ clients = RaceBodies
    /\ site = RaceRenditions
    /\ InitHandlers

NextRace == \E r \in Requests : Download(r)

SpecRace == InitRace /\ [][NextRace]_vars

\* the metadata endpoint alone, over every metadata result of InfoInputs
InitInfo ==
    /\ dir \in {d \in InitDirs : \A n \in AllNames : d[n] = 0}
    /\ ffmpeg = FALSE
    /\ meta \in InfoInputs
    /\ clients = InfoBodies
    /\ site = Renditions
    /\ InitHandlers

NextInfo ==
    \/ InfoReject("r1")
    \/ InfoStart("r1")
    \/ InfoExtract("r1")
    \/ InfoRaise("r1")

SpecInfo == InitInfo /\ [][NextInfo]_vars

----------------------------------------------------------------------------
(* Properties                                                              *)

IsDownload(r) == body[r] # NoBody /\ body[r].endpoint = "download"
IsInfo(r) == body[r] # NoBody /\ body[r].endpoint = "info"
Succeeded(r) == pc[r] = "done" /\ resp[r].status = 200

\* the step on which a download request produces its success response
Succeeds(r) ==
    /\ IsDownload(r)
    /\ pc[r] \in {"check", "scan"}
    /\ pc'[r] = "done"
    /\ resp'[r].status = 200

\* the files of the media kind's extension set that are in a directory
C_KindFiles(d, media_type) ==
    {n \in DOMAIN d :
        /\ d[n] > 0
        /\ n.ext \in (IF media_type = "audio"
                      THEN {"mp3", "m4a", "ogg"}
                      ELSE {"mp4", "webm", "mkv"})}

\* C1 as stated: every success response of POST /api/download names a file
\* that is in the output directory, so that the GET that follows is no 404.
C1_SuccessNamesExistingFile ==
    \A r \in Requests :
        (IsDownload(r) /\ Succeeded(r)) =>
            /\ resp[r].filename \in DOMAIN dir
            /\ dir[resp[r].filename] > 0
            /\ served[r] # "404"

\* C1 as amended: a success response names a file that is in the output
\* directory when the response is produced, except when the predicted file is
\* absent and the directory holds no file of the media kind: then the response
\* names the predicted, missing file.  No file is ever removed, and the GET
\* that follows answers 404 only for a file that is not there.
C1_SuccessNamesFileOrGap ==
    [][\A r \in Requests :
          /\ Succeeds(r) =>
                \/ dir'[resp'[r].filename] > 0
                \/ /\ pc[r] = "scan"
                   /\ dir[fname[r].expected] = 0
                   /\ C_KindFiles(dir, body[r].type) = {}
                   /\ resp'[r].filename = fname[r].expected
          /\ \A n \in DOMAIN dir : dir[n] > 0 => dir'[n] > 0
          /\ (served[r] = "none" /\ served'[r] # "none") =>
                (served'[r] = "404" <=> dir[resp[r].filename] = 0)]_vars

\* a download answered through the fallback with a file that is there, and served
C1_Witness ==
    \E r \in Requests :
        /\ IsDownload(r) /\ Succeeded(r)
        /\ resp[r].filename # Name(resp[r].title, resp[r].ext)
        /\ dir[resp[r].filename] > 0
        /\ served[r] = "200"

\* a file that neither an earlier run nor the request itself can have written
C_Foreign(r, n) == n.stem \notin {"old", Title(body[r].url)}

\* C2: when a request takes the fallback while every newest file of its media
\* kind in the shared directory was written by the other request, it answers
\* with a file the other request wrote (C2_Witness: such a run exists).
C2_FallbackReturnsOthersFile ==
    [][\A r \in Requests :
          LET files == C_KindFiles(dir, body[r].type)
              newest == {n \in files : \A m \in files : dir[m] <= dir[n]}
          IN  (/\ IsDownload(r)
               /\ pc[r] = "scan"
               /\ pc'[r] = "done"
               /\ files # {}
               /\ \A n \in newest : C_Foreign(r, n))
              => /\ resp'[r].status = 200
                 /\ C_Foreign(r, resp'[r].filename)]_vars

\* two requests for different media, one answered with the file of the other
C2_Witness ==
    \E r \in Requests, q \in Requests :
        /\ r # q
        /\ IsDownload(r) /\ IsDownload(q)
        /\ body[r].url \in Urls /\ body[q].url \in Urls
        /\ body[r].url # body[q].url
        /\ Succeeded(r)
        /\ resp[r].filename.stem = Title(body[q].url)
        /\ resp[r].title = Title(body[r].url)

\* C3: when the expected file is absent and the directory holds a file of the
\* media kind's extension set, reconciliation answers with a file of that set
\* whose creation time is the greatest among the files of the set.
C3_FallbackPicksNewestOfKind ==
    [][\A r \in Requests :
          LET files == C_KindFiles(dir, body[r].type)
          IN  (/\ IsDownload(r)
               /\ pc[r] = "scan"
               /\ pc'[r] = "done"
               /\ files # {})
              => /\ resp'[r].status = 200
                 /\ resp'[r].filename \in files
                 /\ \A m \in files : dir[m] <= dir[resp'[r].filename]]_vars

\* the fallback chose between files of the kind with different creation times
C3_Witness ==
    \E r \in Requests :
        /\ IsDownload(r) /\ Succeeded(r)
        /\ body[r].type = "audio"
        /\ resp[r].filename # Name(resp[r].title, resp[r].ext)
        /\ dir[Name(resp[r].title, resp[r].ext)] = 0
        /\ \E m \in C_KindFiles(dir, "audio") :
              /\ m # resp[r].filename
              /\ dir[m] < dir[resp[r].filename]

C_TierHeight(format_type) ==
    IF format_type = "1080p" THEN 1080
    ELSE IF format_type = "720p" THEN 720
    ELSE 480

C_VideoSelectors == {"best", "bestvideo", "worst", "worstvideo"}

\* the engine is running a video request of a resolution tier, ffmpeg present
C_TierRequest(r) ==
    /\ IsDownload(r)
    /\ pc[r] = "engine"
    /\ ffmpeg
    /\ body[r].type = "video"
    /\ body[r].format \in {"1080p", "720p", "480p"}

\* C4: with ffmpeg present, every alternative of the format expression of a
\* video request of tier T limits each selector that can pick a video stream
\* to a height of at most T.
C4_EveryAlternativeCapsHeight ==
    \A r \in Requests :
        C_TierRequest(r) =>
            /\ Len(opts[r].format) > 0
            /\ \A i \in DOMAIN opts[r].format :
                  \A j \in DOMAIN opts[r].format[i] :
                      LET s == opts[r].format[i][j]
                      IN  s.sel \in C_VideoSelectors =>
                             /\ s.maxh > 0
                             /\ s.maxh <= C_TierHeight(body[r].format)

C4_Witness ==
    \E r \in Requests :
        /\ C_TierRequest(r)
        /\ body[r].format = "480p"
        /\ Len(opts[r].format) = 3

\* C5: without ffmpeg the configuration handed to the engine has no
\* post-processing arguments, and a success response carries a warning
\* whenever the media kind is audio or the reported audio codec is opus or vorbis.
C5_NoFfmpegNoArgsAndWarning ==
    [][\A r \in Requests :
          ~ffmpeg =>
             /\ (pc[r] = "idle" /\ pc'[r] = "engine" /\ body'[r].endpoint = "download")
                   => /\ "postprocessor_args" \in DOMAIN opts'[r]
                      /\ opts'[r].postprocessor_args = <<>>
             /\ (Succeeds(r) /\ (body[r].type = "audio"
                                  \/ info[r].acodec \in {"opus", "vorbis"}))
                   => "warning" \in DOMAIN resp'[r]]_vars

\* a video download without ffmpeg answered with the codec warning
C5_Witness ==
    \E r \in Requests :
        /\ ~ffmpeg
        /\ IsDownload(r) /\ Succeeded(r)
        /\ body[r].type = "video"
        /\ "warning" \in DOMAIN resp[r]
        /\ resp[r].warning = W_CODEC

C_HasUrl(f) == "url" \in DOMAIN f /\ f.url \notin {NoneV, ""}
C_Video(f) == C_HasUrl(f) /\ "vcodec" \in DOMAIN f /\ f.vcodec # "none"
C_Both(f) == C_Video(f) /\ "acodec" \in DOMAIN f /\ f.acodec # "none"
C_BothPlayable(f) == C_Both(f) /\ "ext" \in DOMAIN f /\ f.ext \in {"mp4", "webm"}

\* what a tier yields: the URL of the first of its qualifying entries, else nothing
C_Yield(fs, hits) ==
    IF hits = {} THEN NoneV
    ELSE fs[CHOOSE i \in hits : \A j \in hits : i <= j].url

\* the five tiers, in the stated order
C_Tiers(m) ==
    << IF m.url \in {NoneV, ""} THEN NoneV ELSE m.url,
       C_Yield(m.requested_formats,
               {i \in 1..Len(m.requested_formats) : C_Both(m.requested_formats[i])}),
       C_Yield(m.requested_formats,
               {i \in 1..Len(m.requested_formats) : C_Video(m.requested_formats[i])}),
       C_Yield(m.formats, {i \in 1..Len(m.formats) : C_BothPlayable(m.formats[i])}),
       C_Yield(m.formats, {i \in 1..Len(m.formats) : C_Video(m.formats[i])}) >>

\* C6: the preview URL is what the first tier that yields a URL yields, a
\* later tier counting only when every earlier one yields nothing; when no
\* tier yields a URL there is no preview URL.
C6_PreviewFromFirstYieldingTier ==
    \A r \in Requests :
        (IsInfo(r) /\ Succeeded(r)) =>
            LET tiers == C_Tiers(meta)
                yielding == {i \in 1..5 : tiers[i] # NoneV}
            IN  IF yielding = {}
                THEN resp[r].preview_url \in {NoneV, ""}
                ELSE resp[r].preview_url =
                        tiers[CHOOSE i \in yielding : \A j \in yielding : i <= j]

\* no top-level url, no requested formats, an audio-only entry listed before
\* a combined webm entry: the combined entry's URL is the preview
C6_Witness ==
    \E r \in Requests :
        /\ IsInfo(r) /\ Succeeded(r)
        /\ meta.url = NoneV
        /\ meta.requested_formats = <<>>
        /\ Len(meta.formats) = 2
        /\ meta.formats[1] = [url |-> "f1", vcodec |-> "none", acodec |-> "mp4a",
                              ext |-> "webm", height |-> 720]
        /\ meta.formats[2] = [url |-> "f2", vcodec |-> "avc1", acodec |-> "mp4a",
                              ext |-> "webm", height |-> 720]
        /\ resp[r].preview_url = "f2"

C_Label(h) ==
    IF h >= 4320 THEN "8K"
    ELSE IF h >= 2160 THEN "4K"
    ELSE IF h >= 1440 THEN "2K"
    ELSE IF h >= 1080 THEN "FHD"
    ELSE IF h >= 720 THEN "HD"
    ELSE IF h >= 480 THEN "SD"
    ELSE ToString(h) \o "p"

\* the heights of the listed video formats (0 for a format that states none)
C_VideoHeights(m) ==
    {IF "height" \in DOMAIN m.formats[i] THEN m.formats[i].height ELSE 0 :
        i \in {j \in 1..Len(m.formats) :
                  "vcodec" \in DOMAIN m.formats[j] /\ m.formats[j].vcodec # "none"}}

\* C7: the quality label follows the height thresholds for the best height,
\* and there is no label when no listed video format has a height above 0.
C7_LabelFollowsThresholds ==
    \A r \in Requests :
        (IsInfo(r) /\ Succeeded(r)) =>
            IF \E h \in C_VideoHeights(meta) : h > 0
            THEN /\ "best_height" \in DOMAIN resp[r]
                 /\ resp[r].best_height \in C_VideoHeights(meta)
                 /\ \A h \in C_VideoHeights(meta) : h <= resp[r].best_height
                 /\ resp[r].best_quality_label = C_Label(resp[r].best_height)
            ELSE /\ "best_height" \notin DOMAIN resp[r]
                 /\ resp[r].best_quality_label = NoneV

\* a best height on a threshold, reached past a lower and a height-less format
C7_Witness ==
    \E r \in Requests :
        /\ IsInfo(r) /\ Succeeded(r)
        /\ Len(meta.formats) = 2
        /\ "best_height" \in DOMAIN resp[r]
        /\ resp[r].best_height = 1440
        /\ resp[r].best_quality_label = "2K"
        /\ \E i \in 1..2 : "height" \in DOMAIN meta.formats[i]
                            /\ meta.formats[i].height = 479

\* C8: a request of either endpoint whose url is missing or empty is answered
\* 400 at once: the engine is not called for it and the directory is unchanged.
C8_MissingUrlIsRejected ==
    [][\A r \in Requests :
          (pc[r] = "idle" /\ pc'[r] # "idle" /\ body'[r].url \in {NoneV, ""}) =>
             /\ pc'[r] = "done"
             /\ resp'[r].status = 400
             /\ r \notin invoked'
             /\ dir' = dir]_vars

C8_Witness ==
    \E r \in Requests :
        /\ IsInfo(r)
        /\ body[r].url = ""
        /\ pc[r] = "done"
        /\ resp[r].status = 400
        /\ r \notin invoked

\* the engine is running a video request, ffmpeg present
C_VideoRequestWithFfmpeg(r) ==
    /\ IsDownload(r)
    /\ pc[r] = "engine"
    /\ ffmpeg
    /\ body[r].type = "video"

C_ForcesVideoCopy(args) ==
    \E i \in 1..(Len(args) - 1) : args[i] \in {"-c:v", "-vcodec"} /\ args[i + 1] = "copy"

\* C9 as stated: with ffmpeg present the configuration of a video request
\* carries post-processing directives that force-copy the video stream, and
\* forces an output container.
C9_ForceCopyAndContainer ==
    \A r \in Requests :
        C_VideoRequestWithFfmpeg(r) =>
            /\ C_ForcesVideoCopy(opts[r].postprocessor_args)
            /\ opts[r].merge_output_format # NoneV

\* C9 as amended: with ffmpeg present the configuration of a video request
\* forces the mkv output container and carries no post-processing directives.
C9_ContainerOnly ==
    \A r \in Requests :
        C_VideoRequestWithFfmpeg(r) =>
            /\ opts[r].merge_output_format = "mkv"
            /\ opts[r].postprocessor_args = <<>>

C9_Witness ==
    \E r \in Requests :
        /\ C_VideoRequestWithFfmpeg(r)
        /\ body[r].format = "1080p"
        /\ opts[r].prefer_ffmpeg = "True"

\* C10: every success response of an audio download carries a warning, with
\* or without ffmpeg, its audio_note never being "mp3".
C10_AudioAlwaysWarns ==
    \A r \in Requests :
        (IsDownload(r) /\ Succeeded(r) /\ body[r].type = "audio") =>
            /\ resp[r].audio_note # "mp3"
            /\ "warning" \in DOMAIN resp[r]

\* an audio download answered with the warning although ffmpeg is present
C10_Witness ==
    \E r \in Requests :
        /\ ffmpeg
        /\ IsDownload(r) /\ Succeeded(r)
        /\ body[r].type = "audio"
        /\ "warning" \in DOMAIN resp[r]
        /\ resp[r].warning = W_PROGRESSIVE

====
